---- MODULE Spec2Model ----
(***************************************************************************)
(* Watch-progress tracking of the streaming backend: the WatchHistory      *)
(* collection (models/watch.history.models.ts), its write paths (the model *)
(* static updateWatchProgress, the document method updateProgress and the  *)
(* streaming controller's POST /progress) and its two queries.             *)
(*                                                                         *)
(* The MongoDB server is the environment.  findOneAndUpdate on a matching  *)
(* document is one atomic step; with upsert: true and no matching document *)
(* the server first finds nothing and then inserts, and the unique index   *)
(* decides the insert.  Defaults of the schema are filled in by mongoose   *)
(* when the query is executed (setDefaultsOnInsert).                       *)
(***************************************************************************)
EXTENDS Integers, Sequences, FiniteSets, TLC

\* ---------------------------------------------------------------- bounds
MaxClock == 1
MaxRequests == 2
MaxInFlight == 2
MaxSubscriptions == 1

\* ---------------------------------------------------------------- values
\* undefined (an optional argument or field that is not there)
Absent == -1
\* NaN, the result of 0 / 0 and of x / undefined
NaN == -2
\* Infinity, the result of x / 0 for x > 0
PosInf == 1000

Users == {"u1", "u2"}
MediaTypes == {"movie", "tv"}
NoMediaType == "none"

VARIABLES
    store,      \* the documents of the watchhistories collection
    inflight,   \* findOneAndUpdate commands sent and not yet answered
    now,        \* Date.now()
    nreq,       \* number of write requests issued so far
    applied,    \* history: per (userId, movieId) written, the update the store applied last
    resp,       \* the response produced by the last step
    subscriptions,  \* the documents of the subscriptions collection, by _id
    payments        \* processSubscriptionPayment requests between their awaits

vars == <<store, inflight, now, nreq, applied, resp, subscriptions, payments>>

\* the part of the state that the watch history code does not touch
subVars == <<subscriptions, payments>>

\* ------------------------------------------------------------ arithmetic
\* Math.round((currentTime / duration) * 100), lines 94 and 136.
\* Math.round rounds half up; x / 0 is Infinity, 0 / 0 and x / undefined are NaN.
JsRoundPercent(currentTime, duration) ==
    IF duration = Absent \/ duration = NaN \/ currentTime = Absent THEN NaN
    ELSE IF duration = 0 THEN (IF currentTime = 0 THEN NaN ELSE PosInf)
    ELSE (200 * currentTime + duration) \div (2 * duration)

\* progress > 90; every comparison with NaN is false
IsCompleted(progress) == progress # NaN /\ progress > 90

\* a JavaScript number used as a condition: 0, NaN and undefined are falsy
Truthy(n) == n # Absent /\ n # NaN /\ n # 0

\* ------------------------------------------------------------- documents
NoArgs == [userId |-> "", movieId |-> 0, mediaType |-> "none", limit |-> 0]
ArgsOf(q) == [userId |-> q.userId, movieId |-> q.movieId, mediaType |-> q.mediaType, limit |-> 0]

NoResp == [op |-> "none", status |-> "", error |-> "", rows |-> <<>>, doc |-> {}, args |-> NoArgs]

KeyOf(r) == <<r.userId, r.movieId>>

\* the filter of a findOneAndUpdate command against a stored document
Matches(q, r) ==
    /\ r.userId = q.userId
    /\ r.movieId = q.movieId
    /\ (q.mediaType = NoMediaType \/ r.mediaType = q.mediaType)

\* faulty variant: an update that is acknowledged and leaves the stored values
MergeKeepsOld(old, new) == old

\* a key of $set that is not there leaves the stored field alone
Merge(old, new) == IF new = Absent THEN old ELSE new

\* faulty variant: an update that leaves the stored lastPlayedAt alone
ApplyUpdateKeepsLastPlayedAt(r, s) ==
    [r EXCEPT !.currentTime = Merge(@, s.currentTime),
              !.duration = Merge(@, s.duration),
              !.progress = Merge(@, s.progress),
              !.completed = s.completed,
              !.seasonNumber = Merge(@, s.seasonNumber),
              !.episodeNumber = Merge(@, s.episodeNumber)]

\* faulty variant: an update that also writes watchedAt
ApplyUpdateResetsWatchedAt(r, s) ==
    [r EXCEPT !.currentTime = Merge(@, s.currentTime),
              !.duration = Merge(@, s.duration),
              !.progress = Merge(@, s.progress),
              !.completed = s.completed,
              !.watchedAt = Merge(@, s.lastPlayedAt),
              !.lastPlayedAt = Merge(@, s.lastPlayedAt),
              !.seasonNumber = Merge(@, s.seasonNumber),
              !.episodeNumber = Merge(@, s.episodeNumber)]

\* faulty variant: an update that derives progress again from the new times
ApplyUpdateDerivesProgress(r, s) ==
    [r EXCEPT !.currentTime = Merge(@, s.currentTime),
              !.duration = Merge(@, s.duration),
              !.progress = JsRoundPercent(Merge(r.currentTime, s.currentTime), Merge(r.duration, s.duration)),
              !.completed = s.completed,
              !.lastPlayedAt = Merge(@, s.lastPlayedAt),
              !.seasonNumber = Merge(@, s.seasonNumber),
              !.episodeNumber = Merge(@, s.episodeNumber)]

\* the $set of a command applied to the matching document
ApplyUpdate(r, s) ==
    [r EXCEPT !.currentTime = Merge(@, s.currentTime),
              !.duration = Merge(@, s.duration),
              !.progress = Merge(@, s.progress),
              !.completed = s.completed,
              !.lastPlayedAt = Merge(@, s.lastPlayedAt),
              !.seasonNumber = Merge(@, s.seasonNumber),
              !.episodeNumber = Merge(@, s.episodeNumber)]

\* the document an upsert inserts: the equality fields of the filter, the $set,
\* and the schema defaults (lines 60-65) for what the $set leaves out
InsertedDoc(q) ==
    [userId |-> q.userId,
     movieId |-> q.movieId,
     mediaType |-> q.mediaType,
     currentTime |-> Merge(0, q.set.currentTime),
     duration |-> q.set.duration,
     progress |-> Merge(0, q.set.progress),
     completed |-> q.set.completed,
     watchedAt |-> q.defaultAt,
     lastPlayedAt |-> Merge(q.defaultAt, q.set.lastPlayedAt),
     seasonNumber |-> q.set.seasonNumber,
     episodeNumber |-> q.set.episodeNumber]

\* the unique index { userId: 1, movieId: 1 } (line 78)
UniqueIndexKey(r) == <<r.userId, r.movieId>>

\* MongoDB retries an upsert that lost the insert race only when the fields of
\* the filter are exactly the fields of the unique index
RetriesOnDuplicate(q) == q.mediaType = NoMediaType

Written(q) ==
    [path |-> q.path, id |-> q.id, currentTime |-> q.set.currentTime, duration |-> q.set.duration,
     progress |-> q.set.progress, completed |-> q.set.completed,
     lastPlayedAt |-> q.set.lastPlayedAt,
     seasonNumber |-> q.set.seasonNumber, episodeNumber |-> q.set.episodeNumber]

OkDoc(op, r, a) == [op |-> op, status |-> "ok", error |-> "", rows |-> <<>>, doc |-> {r}, args |-> a]
OkRows(op, rows, a) == [op |-> op, status |-> "ok", error |-> "", rows |-> rows, doc |-> {}, args |-> a]
Failed(op, e, a) == [op |-> op, status |-> "error", error |-> e, rows |-> <<>>, doc |-> {}, args |-> a]

Init ==
    /\ store = {}
    /\ inflight = {}
    /\ now = 0
    /\ nreq = 0
    /\ applied = <<>>
    /\ resp = NoResp
    /\ subscriptions = <<>>
    /\ payments = {}

Tick ==
    /\ now < MaxClock
    /\ now' = now + 1
    /\ resp' = NoResp
    /\ UNCHANGED <<store, inflight, nreq, applied>>

\* updateData of the static updateWatchProgress (lines 136-147)
UpdateData(currentTime, duration, seasonNumber, episodeNumber, t) ==
    LET progress == JsRoundPercent(currentTime, duration)
    IN [currentTime |-> currentTime,
        duration |-> duration,
        progress |-> progress,
        completed |-> IsCompleted(progress),
        lastPlayedAt |-> t,
        seasonNumber |-> IF Truthy(seasonNumber) THEN seasonNumber ELSE Absent,
        episodeNumber |-> IF Truthy(episodeNumber) THEN episodeNumber ELSE Absent]

\* WatchHistoryModel.updateWatchProgress(userId, movieId, mediaType, currentTime,
\* duration, seasonNumber?, episodeNumber?): builds updateData with new Date(),
\* then the query is cast (NaN is no Number: CastError), the defaults are
\* computed, possibly a millisecond later, and the command is sent.
UpdateWatchProgress(userId, movieId, mediaType, currentTime, duration, seasonNumber, episodeNumber) ==
    /\ nreq < MaxRequests
    /\ Cardinality(inflight) < MaxInFlight
    /\ nreq' = nreq + 1
    /\ LET set == UpdateData(currentTime, duration, seasonNumber, episodeNumber, now)
       IN IF set.progress = NaN \/ duration = Absent
          THEN /\ resp' = Failed("upsert", "CastError",
                               [userId |-> userId, movieId |-> movieId, mediaType |-> mediaType, limit |-> 0])
               /\ UNCHANGED <<store, inflight, now, applied>>
          ELSE \E t \in {now, now + 1} :
               /\ t <= MaxClock
               /\ now' = t
               /\ inflight' = inflight \cup
                     {[id |-> nreq + 1, path |-> "upsert", userId |-> userId,
                       movieId |-> movieId, mediaType |-> mediaType, set |-> set,
                       defaultAt |-> t, phase |-> "find"]}
               /\ resp' = NoResp
               /\ UNCHANGED <<store, applied>>

\* faulty variant: { new: false }, the document as it was before the update
ReturnedOriginal(old, new) == old

\* { new: true } (line 151): the command returns the document after the update
Returned(old, new) == new

\* the server runs findOneAndUpdate: a matching document is updated atomically
\* and returned (new: true); with none, the upsert goes on to insert
StoreFindAndModify(q) ==
    /\ q.phase = "find"
    /\ IF \E r \in store : Matches(q, r)
       THEN \E r \in store :
            /\ Matches(q, r)
            /\ store' = (store \ {r}) \cup {ApplyUpdate(r, q.set)}
            /\ inflight' = inflight \ {q}
            /\ applied' = (<<q.userId, q.movieId>> :> Written(q)) @@ applied
            /\ resp' = OkDoc(q.path, Returned(r, ApplyUpdate(r, q.set)), ArgsOf(q))
       ELSE /\ inflight' = (inflight \ {q}) \cup {[q EXCEPT !.phase = "insert"]}
            /\ resp' = NoResp
            /\ UNCHANGED <<store, applied>>
    /\ UNCHANGED <<now, nreq>>

\* the insert of an upsert that found nothing: the unique index rejects a second
\* document of the same (userId, movieId) with E11000
StoreInsert(q) ==
    /\ q.phase = "insert"
    /\ IF \E r \in store : UniqueIndexKey(r) = UniqueIndexKey(InsertedDoc(q))
       THEN IF RetriesOnDuplicate(q)
            THEN /\ inflight' = (inflight \ {q}) \cup {[q EXCEPT !.phase = "find"]}
                 /\ resp' = NoResp
                 /\ UNCHANGED <<store, applied>>
            ELSE /\ inflight' = inflight \ {q}
                 /\ resp' = Failed(q.path, "E11000", ArgsOf(q))
                 /\ UNCHANGED <<store, applied>>
       ELSE /\ store' = store \cup {InsertedDoc(q)}
            /\ inflight' = inflight \ {q}
            /\ applied' = (<<q.userId, q.movieId>> :> Written(q)) @@ applied
            /\ resp' = OkDoc(q.path, InsertedDoc(q), ArgsOf(q))
    /\ UNCHANGED <<now, nreq>>

\* new mongoose.Types.ObjectId(userId) throws for a string that is no ObjectId
ValidObjectId(userId) == userId \in Users

\* POST /progress of the streaming controller (lines 102-135): its own
\* findOneAndUpdate on { userId, movieId } with $set of currentTime, duration and
\* completed; lastWatched is no path of the schema and is dropped (strict mode).
\* The ObjectId of a malformed userId throws inside the try block.
StreamingUpdateWatchProgress(userId, movieId, currentTime, duration) ==
    /\ nreq < MaxRequests
    /\ Cardinality(inflight) < MaxInFlight
    /\ nreq' = nreq + 1
    /\ IF userId = "" \/ ~Truthy(movieId) \/ currentTime = Absent
       THEN /\ resp' = Failed("stream", "Missing required fields",
                            [userId |-> userId, movieId |-> movieId, mediaType |-> NoMediaType, limit |-> 0])
            /\ UNCHANGED <<store, inflight, now, applied>>
       ELSE IF ~ValidObjectId(userId)
       THEN /\ resp' = Failed("stream", "Error updating watch progress",
                            [userId |-> userId, movieId |-> movieId, mediaType |-> NoMediaType, limit |-> 0])
            /\ UNCHANGED <<store, inflight, now, applied>>
       ELSE /\ inflight' = inflight \cup
                  {[id |-> nreq + 1, path |-> "stream", userId |-> userId,
                    movieId |-> movieId, mediaType |-> NoMediaType,
                    set |-> [currentTime |-> currentTime,
                             duration |-> duration,
                             progress |-> Absent,
                             completed |-> (duration # Absent /\ currentTime >= duration),
                             lastPlayedAt |-> Absent,
                             seasonNumber |-> Absent,
                             episodeNumber |-> Absent],
                    defaultAt |-> now, phase |-> "find"]}
            /\ resp' = NoResp
            /\ UNCHANGED <<store, now, applied>>

\* the document method updateProgress (lines 90-97) on a document read from the
\* store: it changes the document in memory and does not save it
UpdateProgress(r, currentTime) ==
    LET progress == JsRoundPercent(currentTime, r.duration)
    IN [r EXCEPT !.currentTime = currentTime,
                 !.progress = progress,
                 !.completed = IsCompleted(progress),
                 !.lastPlayedAt = now]

DocUpdateProgress(r, currentTime) ==
    /\ r \in store
    /\ resp' = OkDoc("updateProgress", UpdateProgress(r, currentTime), NoArgs)
    /\ UNCHANGED <<store, inflight, now, nreq, applied>>

\* String(n) of a number that mongoose casts for the String path mediaType
Digits == <<"0", "1", "2", "3", "4", "5", "6", "7", "8", "9">>
NumberString(n) ==
    IF n = Absent THEN "undefined"
    ELSE IF n < 0 THEN "-" \o Digits[(-n) + 1]
    ELSE IF n < 10 THEN Digits[n + 1]
    ELSE Digits[(n \div 10) + 1] \o Digits[(n % 10) + 1]

\* POST /update-progress of the watch history controller (lines 49-69): the
\* check of the body, then the model static called with four arguments, which
\* the static takes as userId, movieId, mediaType and currentTime; an error
\* thrown goes to next() as it is (CatchAsyncError).
HistoryUpdateWatchProgress(userId, movieId, currentTime, duration) ==
    IF userId = "" \/ ~Truthy(movieId) \/ currentTime = Absent \/ ~Truthy(duration)
    THEN /\ nreq < MaxRequests
         /\ nreq' = nreq + 1
         /\ resp' = Failed("history", "Missing required parameters",
                           [userId |-> userId, movieId |-> movieId, mediaType |-> NoMediaType, limit |-> 0])
         /\ UNCHANGED <<store, inflight, now, applied>>
    ELSE IF ~ValidObjectId(userId)
    THEN /\ nreq < MaxRequests
         /\ nreq' = nreq + 1
         /\ resp' = Failed("history", "BSONError",
                           [userId |-> userId, movieId |-> movieId, mediaType |-> NoMediaType, limit |-> 0])
         /\ UNCHANGED <<store, inflight, now, applied>>
    ELSE UpdateWatchProgress(userId, movieId, NumberString(currentTime), duration, Absent, Absent, Absent)

\* what the caller of a write path gets when the store fails the command with
\* error e: the streaming controller catches it and passes its own error on
\* (lines 131-133), the model static rejects with e
ErrorOutcome(q, e) == IF q.path = "stream" THEN "Error updating watch progress" ELSE e

\* the store fails a command it has received (connection lost, server down):
\* nothing is written and the driver rejects the promise
StoreFails(q) ==
    /\ q \in inflight
    /\ inflight' = inflight \ {q}
    /\ resp' = Failed(q.path, ErrorOutcome(q, "MongoNetworkError"), ArgsOf(q))
    /\ UNCHANGED <<store, now, nreq, applied>>

\* what GET streaming details answers (streaming controller, lines 16-69): the
\* check of the query string, the TMDB lookup, findOne({ userId, movieId }), and
\* for a pair without a record a create() of a document that has no mediaType,
\* title or duration, which mongoose rejects before anything is sent
StreamingDetailsResponse(userId, movieId, tmdbFound) ==
    LET a == [userId |-> userId, movieId |-> movieId, mediaType |-> NoMediaType, limit |-> 0]
        found == {r \in store : r.userId = userId /\ r.movieId = movieId}
    IN IF ~Truthy(movieId) \/ userId = ""
       THEN {Failed("getStreamingDetails", "Movie ID and User ID are required", a)}
       ELSE IF ~tmdbFound
       THEN {Failed("getStreamingDetails", "Movie details not found", a)}
       ELSE IF ~ValidObjectId(userId)
       THEN {Failed("getStreamingDetails", "BSONError", a)}
       ELSE IF found = {}
       THEN {Failed("getStreamingDetails", "ValidationError", a)}
       ELSE {OkDoc("getStreamingDetails", r, a) : r \in found}

\* faulty variant: the lookup takes the record it finds out of the collection
GetStreamingDetailsRemoving(userId, movieId, tmdbFound) ==
    /\ resp' \in StreamingDetailsResponse(userId, movieId, tmdbFound)
    /\ store' = store \ resp'.doc
    /\ UNCHANGED <<inflight, now, nreq, applied>>

GetStreamingDetails(userId, movieId, tmdbFound) ==
    /\ resp' \in StreamingDetailsResponse(userId, movieId, tmdbFound)
    /\ UNCHANGED <<store, inflight, now, nreq, applied>>

\* ---------------------------------------------------------------- queries
\* faulty variant: .sort({ lastPlayedAt: 1 })
SortedByLastPlayedAsc(S) ==
    LET n == Cardinality(S)
    IN {f \in [1..n -> S] :
          /\ \A i, j \in 1..n : i # j => f[i] # f[j]
          /\ \A i, j \in 1..n : i < j => f[i].lastPlayedAt <= f[j].lastPlayedAt}

\* .sort({ lastPlayedAt: -1 }): every order of the documents that is descending
\* by lastPlayedAt (the order of documents with equal keys is not determined)
SortedByLastPlayedDesc(S) ==
    LET n == Cardinality(S)
    IN {f \in [1..n -> S] :
          /\ \A i, j \in 1..n : i # j => f[i] # f[j]
          /\ \A i, j \in 1..n : i < j => f[i].lastPlayedAt >= f[j].lastPlayedAt}

\* .limit(n): 0 is no limit
Limit(rows, n) ==
    IF n = 0 \/ n >= Len(rows) THEN rows ELSE SubSeq(rows, 1, n)

\* faulty variant: progress: { $gte: 0, $lt: 90 }
ContinueWatchingQueryFromZero(r, userId, mediaType) ==
    /\ r.userId = userId
    /\ r.completed = FALSE
    /\ r.progress >= 0
    /\ r.progress < 90
    /\ (mediaType # NoMediaType => r.mediaType = mediaType)

\* faulty variant: no completed and no upper progress condition
ContinueWatchingQueryAnyProgress(r, userId, mediaType) ==
    /\ r.userId = userId
    /\ r.progress > 0
    /\ (mediaType # NoMediaType => r.mediaType = mediaType)

\* faulty variant: the filter without its userId condition
ContinueWatchingQueryAnyUser(r, userId, mediaType) ==
    /\ r.completed = FALSE
    /\ r.progress > 0
    /\ r.progress < 90
    /\ (mediaType # NoMediaType => r.mediaType = mediaType)

\* the filter of getContinueWatching (lines 114-119)
ContinueWatchingQuery(r, userId, mediaType) ==
    /\ r.userId = userId
    /\ r.completed = FALSE
    /\ r.progress > 0
    /\ r.progress < 90
    /\ (mediaType # NoMediaType => r.mediaType = mediaType)

\* faulty variant: find({ userId, completed: false })
UserHistoryQueryNotCompleted(r, userId) == r.userId = userId /\ r.completed = FALSE

\* the filter of getUserHistory (line 103)
UserHistoryQuery(r, userId) == r.userId = userId

GetContinueWatching(userId, mediaType, limit) ==
    /\ \E rows \in SortedByLastPlayedDesc({r \in store : ContinueWatchingQuery(r, userId, mediaType)}) :
          resp' = OkRows("getContinueWatching", Limit(rows, limit),
                         [userId |-> userId, movieId |-> 0, mediaType |-> mediaType, limit |-> limit])
    /\ UNCHANGED <<store, inflight, now, nreq, applied>>

\* faulty variant: a history query that marks what it has returned
GetUserHistoryMarking(userId, limit) ==
    /\ \E rows \in SortedByLastPlayedDesc({r \in store : UserHistoryQuery(r, userId)}) :
          resp' = OkRows("getUserHistory", Limit(rows, limit),
                         [userId |-> userId, movieId |-> 0, mediaType |-> NoMediaType, limit |-> limit])
    /\ store' = {IF r.userId = userId THEN [r EXCEPT !.completed = TRUE] ELSE r : r \in store}
    /\ UNCHANGED <<inflight, now, nreq, applied>>

GetUserHistory(userId, limit) ==
    /\ \E rows \in SortedByLastPlayedDesc({r \in store : UserHistoryQuery(r, userId)}) :
          resp' = OkRows("getUserHistory", Limit(rows, limit),
                         [userId |-> userId, movieId |-> 0, mediaType |-> NoMediaType, limit |-> limit])
    /\ UNCHANGED <<store, inflight, now, nreq, applied>>

\* ------------------------------------------------------------ subscriptions
\* createSubscription (tvshow controllers, lines 1167-1209): a subscription
\* starts inactive with paymentStatus "pending" and no paymentVerificationId
CreateSubscription(planType) ==
    /\ Cardinality(DOMAIN subscriptions) < MaxSubscriptions
    /\ IF planType \notin {"monthly", "yearly"}
       THEN /\ resp' = Failed("createSubscription", "Invalid subscription plan type", NoArgs)
            /\ UNCHANGED subscriptions
       ELSE LET id == Cardinality(DOMAIN subscriptions) + 1
                doc == [planType |-> planType, status |-> "inactive",
                        paymentStatus |-> "pending", paymentVerificationId |-> Absent]
            IN /\ subscriptions' = (id :> doc) @@ subscriptions
               /\ resp' = OkDoc("createSubscription", doc, NoArgs)
    /\ UNCHANGED <<store, inflight, now, nreq, applied, payments>>

\* the checks of the card before the subscription is read (lines 1221-1261)
CardRejection(card) ==
    CASE card = "missing" -> "All payment fields are required"
      [] card = "number" -> "Card number must be 16 digits"
      [] card = "cvv" -> "CVV must be 3 digits"
      [] card = "expired" -> "Card has expired"
      [] OTHER -> ""

\* processSubscriptionPayment up to its first await (lines 1211-1263)
ProcessSubscriptionPayment(card, subscriptionId) ==
    /\ nreq < MaxRequests
    /\ nreq' = nreq + 1
    /\ IF ~Truthy(subscriptionId) \/ CardRejection(card) # ""
       THEN /\ resp' = Failed("processSubscriptionPayment",
                             IF ~Truthy(subscriptionId)
                             THEN CardRejection("missing") ELSE CardRejection(card), NoArgs)
            /\ UNCHANGED payments
       ELSE /\ payments' = payments \cup
                  {[id |-> nreq + 1, subscriptionId |-> subscriptionId, phase |-> "find"]}
            /\ resp' = NoResp
    /\ UNCHANGED <<store, inflight, now, applied, subscriptions>>

\* findById has answered (lines 1263-1283): no subscription, one that is paid,
\* or one to pay, for which a fresh paymentVerificationId is drawn
PaymentFindById(p) ==
    /\ p.phase = "find"
    /\ IF p.subscriptionId \notin DOMAIN subscriptions
       THEN /\ payments' = payments \ {p}
            /\ resp' = Failed("processSubscriptionPayment", "Subscription not found", NoArgs)
       ELSE IF subscriptions[p.subscriptionId].paymentStatus = "completed"
       THEN /\ payments' = payments \ {p}
            /\ resp' = Failed("processSubscriptionPayment", "Subscription already paid", NoArgs)
       ELSE /\ payments' = (payments \ {p}) \cup {[p EXCEPT !.phase = "save"]}
            /\ resp' = NoResp
    /\ UNCHANGED <<store, inflight, now, nreq, applied, subscriptions>>

\* subscription.save() of the document read before (lines 1293-1311): the three
\* modified paths are written, whatever the stored document has become
PaymentSave(p) ==
    /\ p.phase = "save"
    /\ subscriptions' =
          [subscriptions EXCEPT ![p.subscriptionId] =
              [@ EXCEPT !.paymentStatus = "completed",
                        !.status = "active",
                        !.paymentVerificationId = p.id]]
    /\ payments' = payments \ {p}
    /\ resp' = OkDoc("processSubscriptionPayment", subscriptions'[p.subscriptionId], NoArgs)
    /\ UNCHANGED <<store, inflight, now, nreq, applied>>

\* ----------------------------------------------------------------- inputs
\* the default of the limit parameter (lines 101 and 112)
DefaultLimit == 10

Tuples == {<<"u1", 1, "movie">>, <<"u1", 1, "tv">>}
Reports == {<<5, 10>>, <<10, 10>>, <<12, 10>>}

Next ==
    \/ /\ Tick
       /\ UNCHANGED subVars
    \/ /\ \E k \in Tuples, rp \in Reports :
          UpdateWatchProgress(k[1], k[2], k[3], rp[1], rp[2], Absent, Absent)
       /\ UNCHANGED subVars
    \/ /\ \E k \in Tuples, rp \in Reports :
          StreamingUpdateWatchProgress(k[1], k[2], rp[1], rp[2])
       /\ UNCHANGED subVars
    \/ /\ \E q \in inflight : StoreFindAndModify(q)
       /\ UNCHANGED subVars
    \/ /\ \E q \in inflight : StoreInsert(q)
       /\ UNCHANGED subVars
    \/ /\ \E r \in store, rp \in Reports : DocUpdateProgress(r, rp[1])
       /\ UNCHANGED subVars

Spec == Init /\ [][Next]_vars

\* The queries, over a store filled by sequential writes for several users and
\* media (a query reads the store in one step, so the writes in flight add
\* nothing to what it can see).
QueryTuples == {<<"u1", 1, "movie">>, <<"u1", 2, "tv">>, <<"u2", 1, "movie">>}
QueryReports == {<<0, 10>>, <<5, 10>>, <<9, 10>>, <<10, 10>>}
Limits == {1, DefaultLimit}

NextQuery ==
    \/ /\ inflight = {}
       /\ Tick
       /\ UNCHANGED subVars
    \/ /\ inflight = {}
       /\ \E k \in QueryTuples, rp \in QueryReports :
             UpdateWatchProgress(k[1], k[2], k[3], rp[1], rp[2], Absent, Absent)
       /\ UNCHANGED subVars
    \/ /\ inflight = {}
       /\ StreamingUpdateWatchProgress("u1", 2, 10, 10)
       /\ UNCHANGED subVars
    \/ /\ \E q \in inflight : StoreFindAndModify(q)
       /\ UNCHANGED subVars
    \/ /\ \E q \in inflight : StoreInsert(q)
       /\ UNCHANGED subVars
    \/ /\ inflight = {}
       /\ \E u \in Users, mt \in MediaTypes \cup {NoMediaType}, n \in Limits :
             GetContinueWatching(u, mt, n)
       /\ UNCHANGED subVars
    \/ /\ inflight = {}
       /\ \E u \in Users, n \in Limits : GetUserHistory(u, n)
       /\ UNCHANGED subVars

SpecQuery == Init /\ [][NextQuery]_vars

\* The queries with every kind of limit a caller can pass (0 is a Number like
\* any other for the limit parameter), over a store filled by sequential writes.
LimitTuples == {<<"u1", 1, "movie">>, <<"u1", 2, "tv">>}
LimitReports == {<<5, 10>>, <<10, 10>>}
LimitValues == {0, 1, 2, DefaultLimit}

NextLimit ==
    \/ /\ inflight = {}
       /\ Tick
       /\ UNCHANGED subVars
    \/ /\ inflight = {}
       /\ \E k \in LimitTuples, rp \in LimitReports :
             UpdateWatchProgress(k[1], k[2], k[3], rp[1], rp[2], Absent, Absent)
       /\ UNCHANGED subVars
    \/ /\ \E q \in inflight : StoreFindAndModify(q)
       /\ UNCHANGED subVars
    \/ /\ \E q \in inflight : StoreInsert(q)
       /\ UNCHANGED subVars
    \/ /\ inflight = {}
       /\ \E mt \in MediaTypes \cup {NoMediaType}, n \in LimitValues :
             GetContinueWatching("u1", mt, n)
       /\ UNCHANGED subVars
    \/ /\ inflight = {}
       /\ \E n \in LimitValues : GetUserHistory("u1", n)
       /\ UNCHANGED subVars

SpecLimit == Init /\ [][NextLimit]_vars

\* The write requests with bodies that are incomplete or malformed, one request
\* at a time, against a store that may fail a command.
InputUsers == {"", "bad", "u1"}
InputMovies == {0, 1}
InputReports == {<<5, 10>>, <<5, 0>>, <<5, Absent>>, <<5, -10>>, <<Absent, 10>>}
StaticReports == {<<5, 10>>, <<5, 0>>, <<0, 0>>, <<5, Absent>>}

NextInput ==
    \/ /\ inflight = {}
       /\ Tick
       /\ UNCHANGED subVars
    \/ /\ inflight = {}
       /\ \E u \in InputUsers, m \in InputMovies, rp \in InputReports :
             StreamingUpdateWatchProgress(u, m, rp[1], rp[2])
       /\ UNCHANGED subVars
    \/ /\ inflight = {}
       /\ \E u \in InputUsers, m \in InputMovies, rp \in InputReports :
             HistoryUpdateWatchProgress(u, m, rp[1], rp[2])
       /\ UNCHANGED subVars
    \/ /\ inflight = {}
       /\ \E rp \in StaticReports :
             UpdateWatchProgress("u1", 1, "movie", rp[1], rp[2], Absent, Absent)
       /\ UNCHANGED subVars
    \/ /\ \E q \in inflight : StoreFindAndModify(q)
       /\ UNCHANGED subVars
    \/ /\ \E q \in inflight : StoreInsert(q)
       /\ UNCHANGED subVars
    \/ /\ \E q \in inflight : StoreFails(q)
       /\ UNCHANGED subVars

SpecInput == Init /\ [][NextInput]_vars

\* The model static called again and again, one call after the other has
\* returned, for a movie and for episodes of a show.
RepeatTuples == {<<"u1", 1, "movie">>, <<"u1", 2, "tv">>}
RepeatReports == {<<5, 10>>, <<10, 10>>}
SeasonEpisodes == {<<Absent, Absent>>, <<0, 0>>, <<1, 1>>, <<2, 1>>}

NextRepeat ==
    \/ /\ inflight = {}
       /\ Tick
       /\ UNCHANGED subVars
    \/ /\ inflight = {}
       /\ \E k \in RepeatTuples, rp \in RepeatReports, se \in SeasonEpisodes :
             UpdateWatchProgress(k[1], k[2], k[3], rp[1], rp[2], se[1], se[2])
       /\ UNCHANGED subVars
    \/ /\ \E q \in inflight : StoreFindAndModify(q)
       /\ UNCHANGED subVars
    \/ /\ \E q \in inflight : StoreInsert(q)
       /\ UNCHANGED subVars

SpecRepeat == Init /\ [][NextRepeat]_vars

\* The lookups of the streaming controller between the writes of both paths.
LookupTuples == {<<"u1", 1, "movie">>, <<"u2", 1, "tv">>}
LookupReports == {<<5, 10>>, <<10, 10>>}
LookupUsers == {"", "bad", "u1", "u2"}
LookupMovies == {0, 1, 2}

NextLookup ==
    \/ /\ inflight = {}
       /\ Tick
       /\ UNCHANGED subVars
    \/ /\ inflight = {}
       /\ \E k \in LookupTuples, rp \in LookupReports :
             UpdateWatchProgress(k[1], k[2], k[3], rp[1], rp[2], Absent, Absent)
       /\ UNCHANGED subVars
    \/ /\ inflight = {}
       /\ \E m \in {1, 2} : StreamingUpdateWatchProgress("u1", m, 5, 10)
       /\ UNCHANGED subVars
    \/ /\ \E q \in inflight : StoreFindAndModify(q)
       /\ UNCHANGED subVars
    \/ /\ \E q \in inflight : StoreInsert(q)
       /\ UNCHANGED subVars
    \/ /\ \E u \in LookupUsers, m \in LookupMovies, found \in BOOLEAN :
          GetStreamingDetails(u, m, found)
       /\ UNCHANGED subVars

SpecLookup == Init /\ [][NextLookup]_vars

\* The subscription requests, payments for one subscription running side by
\* side.
PlanTypes == {"", "monthly", "yearly"}
Cards == {"ok", "missing", "number", "cvv", "expired"}
PaymentSubscriptionIds == {0, 1, 2}

NextPayment ==
    \/ \E pt \in PlanTypes : CreateSubscription(pt)
    \/ \E c \in Cards, s \in PaymentSubscriptionIds : ProcessSubscriptionPayment(c, s)
    \/ \E p \in payments : PaymentFindById(p)
    \/ \E p \in payments : PaymentSave(p)

SpecPayment == Init /\ [][NextPayment]_vars

\* ================================================================= claims

\* C1: every stored record has completed = (progress > 90), whatever write
\* path wrote it.  (The streaming controller stores completed =
\* (currentTime >= duration) and leaves progress alone.)
C1_CompletedDerivedFromProgress ==
    \A r \in store : r.completed = (r.progress > 90)

\* the percentage of the specification: round(currentTime / duration * 100),
\* halves up, for duration > 0
RoundedPercent(currentTime, duration) ==
    CHOOSE p \in 0..(200 * currentTime + 1) :
        /\ 2 * duration * p <= 200 * currentTime + duration
        /\ 200 * currentTime + duration < 2 * duration * (p + 1)

Clamp(x, lo, hi) == IF x < lo THEN lo ELSE IF x > hi THEN hi ELSE x

\* C2: an upsert with currentTime >= 0 and duration > 0 stores
\* progress = min(100, max(0, round(currentTime / duration * 100))) and
\* completed = (progress > 90).
C2_ProgressRoundedAndClamped ==
    (resp.op = "upsert" /\ resp.status = "ok") =>
        \A r \in resp.doc :
            (r.currentTime >= 0 /\ r.duration > 0) =>
                /\ r \in store
                /\ r.progress = Clamp(RoundedPercent(r.currentTime, r.duration), 0, 100)
                /\ r.completed = (r.progress > 90)

\* C3: every stored record's progress is the value derived from its own
\* currentTime and duration.
C3_ProgressDerivedFromTimes ==
    \A r \in store : r.progress = JsRoundPercent(r.currentTime, r.duration)

\* C4: concurrent upserts for one (userId, movieId, mediaType) leave one record
\* for it, and an upsert that reaches the store when the tuple already has a
\* record overwrites that record (it does not fail).
C4_OneRecordAndSecondOverwrites ==
    /\ \A r1, r2 \in store :
          (r1.userId = r2.userId /\ r1.movieId = r2.movieId /\ r1.mediaType = r2.mediaType)
              => r1 = r2
    /\ (/\ resp.op = "upsert"
        /\ resp.error # "CastError"
        /\ \E r \in store : /\ r.userId = resp.args.userId
                            /\ r.movieId = resp.args.movieId
                            /\ r.mediaType = resp.args.mediaType)
          => /\ resp.status = "ok"
             /\ resp.doc \subseteq store

\* C5: a record last written by an upsert holds currentTime, duration,
\* progress, completed and lastPlayedAt of that one upsert, never a mix of two.
C5_RecordIsOneUpsert ==
    \A r \in store :
        (KeyOf(r) \in DOMAIN applied /\ applied[KeyOf(r)].path = "upsert") =>
            /\ r.currentTime = applied[KeyOf(r)].currentTime
            /\ r.duration = applied[KeyOf(r)].duration
            /\ r.progress = applied[KeyOf(r)].progress
            /\ r.completed = applied[KeyOf(r)].completed
            /\ r.lastPlayedAt = applied[KeyOf(r)].lastPlayedAt

\* C5's case: an upsert issued earlier is still on its way while a later upsert
\* for the same tuple, with another currentTime, has been applied
C5_Witness ==
    \E q \in inflight : \E r \in store :
        /\ q.path = "upsert"
        /\ Matches(q, r)
        /\ KeyOf(r) \in DOMAIN applied
        /\ applied[KeyOf(r)].path = "upsert"
        /\ applied[KeyOf(r)].id > q.id
        /\ q.set.currentTime # r.currentTime

\* C6: a record's lastPlayedAt never decreases from one state to the next.
C6_LastPlayedAtNeverDecreases ==
    [][\A r \in store : \A r2 \in store' :
          KeyOf(r) = KeyOf(r2) => r2.lastPlayedAt >= r.lastPlayedAt]_vars

\* C7: every stored record has lastPlayedAt >= watchedAt.
C7_LastPlayedNotBeforeWatched ==
    \A r \in store : r.lastPlayedAt >= r.watchedAt

\* C8: for one user and one media id, the upsert for "movie" and the upsert
\* for "tv" both succeed: an upsert answered while the store holds the record
\* of the other media type succeeds and leaves its own record.
C8_MovieAndTvAreTwoRecords ==
    (/\ resp.op = "upsert"
     /\ resp.error # "CastError"
     /\ \E r \in store : /\ r.userId = resp.args.userId
                         /\ r.movieId = resp.args.movieId
                         /\ r.mediaType \in MediaTypes \ {resp.args.mediaType})
        => /\ resp.status = "ok"
           /\ \E r \in store : /\ r.userId = resp.args.userId
                               /\ r.movieId = resp.args.movieId
                               /\ r.mediaType = resp.args.mediaType
                               /\ r \in resp.doc

IsQuery(op) == op \in {"getContinueWatching", "getUserHistory"}

\* C9: getContinueWatching(userId, mediaType?, limit) returns only stored
\* records of that user with completed = false and 0 < progress < 90, of the
\* given mediaType when one is passed; with fewer than limit such records it
\* returns all of them; a record with progress 0 is never returned.
C9_ContinueWatchingSelection ==
    resp.op = "getContinueWatching" =>
        LET a == resp.args
            rows == resp.rows
            wanted == {r \in store : /\ r.userId = a.userId
                                     /\ r.completed = FALSE
                                     /\ 0 < r.progress
                                     /\ r.progress < 90
                                     /\ (a.mediaType \in MediaTypes => r.mediaType = a.mediaType)}
        IN /\ \A i \in 1..Len(rows) : rows[i] \in wanted /\ rows[i].progress # 0
           /\ Cardinality(wanted) < a.limit =>
                 \A r \in wanted : \E i \in 1..Len(rows) : rows[i] = r

\* C9's case: a query by mediaType returns a record while the same user has a
\* record at progress 0, which it leaves out
C9_Witness ==
    /\ resp.op = "getContinueWatching"
    /\ resp.args.mediaType \in MediaTypes
    /\ Len(resp.rows) = 1
    /\ \E r \in store : r.userId = resp.args.userId /\ r.progress = 0

\* C10 as stated: the rows of both queries are strictly descending by
\* lastPlayedAt.
C10_StrictlyDescending ==
    IsQuery(resp.op) =>
        \A i \in 1..(Len(resp.rows) - 1) :
            resp.rows[i].lastPlayedAt > resp.rows[i + 1].lastPlayedAt

\* C10 amended: the rows of both queries are descending by lastPlayedAt, and
\* records with equal lastPlayedAt may follow one another.
C10_Descending ==
    IsQuery(resp.op) =>
        \A i \in 1..(Len(resp.rows) - 1) :
            resp.rows[i].lastPlayedAt >= resp.rows[i + 1].lastPlayedAt

\* C10's case: a query returns two records played at different times
C10_Witness ==
    /\ IsQuery(resp.op)
    /\ Len(resp.rows) = 2
    /\ resp.rows[1].lastPlayedAt > resp.rows[2].lastPlayedAt
\* the records a query selects, whatever the limit
Selected(op, a) ==
    IF op = "getContinueWatching"
    THEN {r \in store : ContinueWatchingQuery(r, a.userId, a.mediaType)}
    ELSE {r \in store : UserHistoryQuery(r, a.userId)}

\* C11: for every limit a caller passes, both queries return at most limit
\* records, and the records returned are the limit most recently played of
\* those that match: no matching record left out was played later than a
\* returned one, and none is left out while fewer than limit are returned.
C11_AtMostLimitMostRecent ==
    IsQuery(resp.op) =>
        LET rows == resp.rows
            returned == {rows[i] : i \in 1..Len(rows)}
            rest == Selected(resp.op, resp.args) \ returned
        IN /\ Len(rows) <= resp.args.limit
           /\ returned \subseteq Selected(resp.op, resp.args)
           /\ \A r \in returned : \A o \in rest : r.lastPlayedAt >= o.lastPlayedAt
           /\ (Len(rows) < resp.args.limit => rest = {})

\* C12: getUserHistory(userId, limit) filters by user alone: it returns only
\* records of that user, and when the user has at most limit records it
\* returns every one of them, completed or not and whatever the progress.
C12_HistoryHasNoFilter ==
    resp.op = "getUserHistory" =>
        LET rows == resp.rows
            ofUser == {r \in store : r.userId = resp.args.userId}
        IN /\ \A i \in 1..Len(rows) : rows[i] \in ofUser
           /\ Cardinality(ofUser) <= resp.args.limit =>
                 \A r \in ofUser : \E i \in 1..Len(rows) : rows[i] = r

\* C12's case: history returns a completed record together with a record at
\* progress 0
C12_Witness ==
    /\ resp.op = "getUserHistory"
    /\ \E i, j \in 1..Len(resp.rows) :
          /\ resp.rows[i].completed
          /\ resp.rows[j].progress = 0
          /\ ~resp.rows[j].completed

\* C13: an update-progress request of either controller whose userId, media id
\* or duration is missing or malformed (every duration <= 0 included) never
\* gets to the store: no command of such a request is sent, and no record
\* holds what such a request reported.
C13_InvalidRequestNeverReachesStore ==
    /\ \A q \in inflight :
          q.path = "stream" =>
              /\ ValidObjectId(q.userId)
              /\ Truthy(q.movieId)
              /\ q.set.duration # Absent
              /\ q.set.duration > 0
    /\ \A r \in store :
          (KeyOf(r) \in DOMAIN applied /\ applied[KeyOf(r)].path = "stream") =>
              /\ applied[KeyOf(r)].duration # Absent
              /\ applied[KeyOf(r)].duration > 0

\* C14: a record written by an upsert with duration 0 or absent has progress 0
\* and completed false, and no write leaves an undefined, NaN or infinite
\* progress in the store.
C14_ZeroDurationIsZeroProgress ==
    \A r \in store :
        /\ r.progress \notin {Absent, NaN, PosInf}
        /\ (KeyOf(r) \in DOMAIN applied /\ applied[KeyOf(r)].duration \in {0, Absent}) =>
              (r.progress = 0 /\ r.completed = FALSE)

StorageErrors == {"MongoNetworkError", "E11000"}

\* C15: when the command of a progress request ends in an error, the request
\* ends with the error of the store: the error is not replaced by another one,
\* nothing is written and the command is not sent again.
C15_StorageErrorSurfacedUnchanged ==
    [][\A q \in inflight :
          (q \notin inflight' /\ resp'.status = "error") =>
              /\ resp'.error \in StorageErrors
              /\ store' = store
              /\ \A p \in inflight' : p.id # q.id]_vars

\* command q carries the arguments of the call that wrote w, and is the next
\* call after it
SameCall(q, w) ==
    /\ q.path = "upsert"
    /\ w.path = "upsert"
    /\ q.id = w.id + 1
    /\ q.set.currentTime = w.currentTime
    /\ q.set.duration = w.duration
    /\ q.set.seasonNumber = w.seasonNumber
    /\ q.set.episodeNumber = w.episodeNumber

\* C16: when updateWatchProgress is called a second time with the arguments of
\* the call just before it, the one record of the tuple keeps every field but
\* lastPlayedAt, no other record is touched, and lastPlayedAt is later than it
\* was after the first call.
C16_SecondCallOnlyAdvancesLastPlayedAt ==
    [][\A q \in inflight : \A r \in store :
          (/\ q.phase = "find"
           /\ Matches(q, r)
           /\ KeyOf(r) \in DOMAIN applied
           /\ SameCall(q, applied[KeyOf(r)])
           /\ q \notin inflight'
           /\ resp'.status = "ok")
             => \E r2 \in store' :
                   /\ r2 = [r EXCEPT !.lastPlayedAt = r2.lastPlayedAt]
                   /\ store' \ {r2} = store \ {r}
                   /\ r2.lastPlayedAt > r.lastPlayedAt]_vars

\* the rows of the last response, as a set
RowsReturned == {resp.rows[i] : i \in 1..Len(resp.rows)}

\* the number of records of the user asked for is within the limit asked for
WithinLimit == Cardinality({r \in store : r.userId = resp.args.userId}) <= resp.args.limit

\* C17: a record whose last upsert left its progress inside (0, 90) is
\* returned by continue-watching for its user (of its media type, within the
\* limit); an upsert that raises a record's progress from inside (0, 90) to
\* above 90 leaves it completed; and in every state a record with progress
\* above 90 is not returned by continue-watching and is returned by history
\* (within the limit).
C17_ContinueWatchingUntilCompleted ==
    /\ [](resp.op = "getContinueWatching" =>
            /\ \A r \in RowsReturned : r.progress <= 90 /\ ~r.completed
            /\ WithinLimit =>
                  \A r \in store :
                      (/\ r.userId = resp.args.userId
                       /\ resp.args.mediaType \in {NoMediaType, r.mediaType}
                       /\ KeyOf(r) \in DOMAIN applied
                       /\ applied[KeyOf(r)].path = "upsert"
                       /\ applied[KeyOf(r)].progress > 0
                       /\ applied[KeyOf(r)].progress < 90) => r \in RowsReturned)
    /\ [](resp.op = "getUserHistory" =>
            (WithinLimit =>
                \A r \in store :
                    (r.userId = resp.args.userId /\ r.progress > 90) => r \in RowsReturned))
    /\ [][\A r \in store : \A r2 \in store' :
            (/\ KeyOf(r2) = KeyOf(r)
             /\ resp'.op = "upsert"
             /\ r.progress > 0
             /\ r.progress < 90
             /\ r2.progress > 90) => r2.completed]_vars

\* C17's case: history returns a completed record with progress above 90 that
\* was written there by an upsert later than the one that created the record
C17_Witness ==
    /\ resp.op = "getUserHistory"
    /\ \E r \in RowsReturned :
          /\ r.progress > 90
          /\ r.completed
          /\ r.lastPlayedAt > r.watchedAt
          /\ applied[KeyOf(r)].path = "upsert"

\* C18: a query made when every upsert issued has completed returns, for each
\* record, the values of the last upsert applied to its tuple: currentTime,
\* duration and completed, and progress and lastPlayedAt when that upsert is
\* one of the model static.
C18_QueryObservesLatestUpsert ==
    IsQuery(resp.op) =>
        \A r \in RowsReturned :
            /\ KeyOf(r) \in DOMAIN applied
            /\ r.currentTime = applied[KeyOf(r)].currentTime
            /\ r.duration = applied[KeyOf(r)].duration
            /\ r.completed = applied[KeyOf(r)].completed
            /\ applied[KeyOf(r)].path = "upsert" =>
                  /\ r.progress = applied[KeyOf(r)].progress
                  /\ r.lastPlayedAt = applied[KeyOf(r)].lastPlayedAt

\* C18's case: a query returns a record that the second request has updated
\* at a later time than it was created, with the currentTime 9 it reported
C18_Witness ==
    /\ IsQuery(resp.op)
    /\ nreq = 2
    /\ \E r \in RowsReturned :
          /\ applied[KeyOf(r)].id = 2
          /\ r.lastPlayedAt > r.watchedAt
          /\ r.currentTime = 9

\* C19: a query changes nothing: the records and every field of them, the
\* commands on their way, the clock and the request history are the same after
\* it as before, and what it returns are records as they are stored.
C19_QueriesAreReadOnly ==
    [][IsQuery(resp'.op) =>
          /\ store' = store
          /\ inflight' = inflight
          /\ applied' = applied
          /\ nreq' = nreq
          /\ now' = now
          /\ \A i \in 1..Len(resp'.rows) : resp'.rows[i] \in store]_vars

\* C19's case: continue-watching has returned one of the two records stored
C19_Witness ==
    /\ resp.op = "getContinueWatching"
    /\ Len(resp.rows) = 1
    /\ Cardinality(store) = 2

\* C20: watchedAt is set when the record is created, to the time of the
\* request that creates it, and no step changes the watchedAt of a record that
\* exists.
C20_WatchedAtImmutable ==
    [][\A r2 \in store' :
          /\ \A r \in store : KeyOf(r) = KeyOf(r2) => r2.watchedAt = r.watchedAt
          /\ (\A r \in store : KeyOf(r) # KeyOf(r2)) =>
                (r2.watchedAt >= 0 /\ r2.watchedAt <= now')]_vars

\* C20's case: a record created at one time has been updated at a later time
\* by the second request
C20_Witness ==
    /\ resp.status = "ok"
    /\ \E r \in resp.doc :
          /\ r \in store
          /\ applied[KeyOf(r)].id = 2
          /\ r.watchedAt = 0
          /\ r.lastPlayedAt = 1

\* C21: no step removes a record: every record of a state has a record of the
\* same user, media id and media type in the next state, and the number of
\* records does not decrease.
C21_NoRecordRemoved ==
    [][/\ \A r \in store : \E r2 \in store' :
             KeyOf(r2) = KeyOf(r) /\ r2.mediaType = r.mediaType
       /\ Cardinality(store') >= Cardinality(store)]_vars

\* C21's case: the streaming lookup has found a record while two are stored
C21_Witness ==
    /\ resp.op = "getStreamingDetails"
    /\ resp.status = "ok"
    /\ resp.doc \subseteq store
    /\ Cardinality(store) = 2

\* the errors of getStreamingDetails that have nothing to do with the record
LookupRejections ==
    {"Movie ID and User ID are required", "Movie details not found", "BSONError"}

\* C25: the lookup of the progress record of a (user, media) pair that has
\* none is no error: a streaming details request that is well-formed and
\* finds its movie does not fail when the pair has no record.
C25_AbsentRecordIsNoError ==
    (/\ resp.op = "getStreamingDetails"
     /\ resp.error \notin LookupRejections
     /\ ~\E r \in store : r.userId = resp.args.userId /\ r.movieId = resp.args.movieId)
        => resp.status = "ok"

\* C22: a successful updateWatchProgress returns a record, and the record it
\* returns is the record as it is stored after the update or the insert.
C22_ReturnsStoredRecord ==
    (resp.op = "upsert" /\ resp.status = "ok") =>
        /\ resp.doc # {}
        /\ resp.doc \subseteq store

\* C22's case: an upsert has replaced currentTime 5 of an existing record and
\* returned the record with the new values
C22_Witness ==
    /\ resp.op = "upsert"
    /\ resp.status = "ok"
    /\ \E r \in resp.doc :
          /\ r.currentTime = 10
          /\ r.progress = 100
          /\ r.lastPlayedAt > r.watchedAt

\* C23: when the update-progress handler of the watch history controller
\* accepts a report { userId, movieId, currentTime, duration }, the upsert it
\* sends to the store carries that currentTime, that duration and the progress
\* derived from the two.
C23_HandlerPassesReport ==
    [][\A u \in InputUsers, m \in InputMovies, rp \in InputReports :
          (/\ HistoryUpdateWatchProgress(u, m, rp[1], rp[2])
           /\ resp'.error \notin {"Missing required parameters", "BSONError"})
             => \E q \in inflight' \ inflight :
                   /\ q.set.currentTime = rp[1]
                   /\ q.set.duration = rp[2]
                   /\ q.set.progress = JsRoundPercent(rp[1], rp[2])]_vars

\* C24: the update an upsert sends carries the seasonNumber and the
\* episodeNumber of the call whenever they are supplied (0 included), so that
\* the record takes them, and carries none when they are omitted, so that the
\* record keeps what it has.
C24_SeasonEpisodeWrittenWhenSupplied ==
    [][\A k \in RepeatTuples, rp \in RepeatReports, se \in SeasonEpisodes :
          UpdateWatchProgress(k[1], k[2], k[3], rp[1], rp[2], se[1], se[2]) =>
              \A q \in inflight' \ inflight :
                  /\ q.set.seasonNumber = se[1]
                  /\ q.set.episodeNumber = se[2]]_vars

\* the media the streaming controller plays are movies: it looks its movieId up
\* at TMDB's /movie/ endpoint (line 28)
StreamMediaType == "movie"

\* the tuple a command writes for
TupleOf(q) ==
    <<q.userId, q.movieId, IF q.path = "stream" THEN StreamMediaType ELSE q.mediaType>>

\* C26: when the store applies the write of a command, of the model upsert or
\* of the streaming controller, every record of another tuple (another user,
\* another media id, or the same media id with the other mediaType) is the
\* same after the step as before.
C26_OtherTuplesUnchanged ==
    [][\A q \in inflight :
          (q \notin inflight' /\ resp'.status = "ok") =>
              \A r \in store :
                  <<r.userId, r.movieId, r.mediaType>> # TupleOf(q) => r \in store']_vars

\* C27: a record whose progress is exactly 90 is not completed, is never among
\* the rows of getContinueWatching, and is among the rows of getUserHistory
\* for its user (within the limit).
C27_ProgressNinety ==
    /\ \A r \in store : r.progress = 90 => r.completed = FALSE
    /\ resp.op = "getContinueWatching" => \A r \in RowsReturned : r.progress # 90
    /\ (resp.op = "getUserHistory" /\ WithinLimit) =>
          \A r \in store :
              (r.userId = resp.args.userId /\ r.progress = 90) => r \in RowsReturned

C29_PaymentAppliedAtMostOnce ==
    [][/\ \A s \in DOMAIN subscriptions :
             subscriptions[s].paymentStatus = "completed" =>
                 subscriptions'[s].paymentVerificationId = subscriptions[s].paymentVerificationId
       /\ \A p \in payments :
             (/\ p \notin payments'
              /\ resp'.op = "processSubscriptionPayment"
              /\ p.subscriptionId \in DOMAIN subscriptions
              /\ subscriptions[p.subscriptionId].paymentStatus = "completed")
                => resp'.error = "Subscription already paid"]_vars

\* the results a query may give over the records S
ResultsOver(S, op, a) ==
    LET found == IF op = "getContinueWatching"
                 THEN {r \in S : ContinueWatchingQuery(r, a.userId, a.mediaType)}
                 ELSE {r \in S : UserHistoryQuery(r, a.userId)}
    IN {Limit(rows, a.limit) : rows \in SortedByLastPlayedDesc(found)}

\* C30: both queries return only records whose userId is the user asked for,
\* and what they return is a result of the query over that user's records
\* alone: the records of other users have no part in it, so two stores with
\* the same records of the user give the same results.
C30_ResultsDependOnOwnRecordsOnly ==
    IsQuery(resp.op) =>
        /\ \A r \in RowsReturned : r.userId = resp.args.userId
        /\ resp.rows \in ResultsOver({r \in store : r.userId = resp.args.userId},
                                     resp.op, resp.args)

\* C30's case: a continue-watching query for one user returns that user's
\* record, fewer rows than the limit, while another user has a record that is
\* in progress as well
C30_Witness ==
    /\ resp.op = "getContinueWatching"
    /\ Len(resp.rows) = 1
    /\ resp.args.limit > 1
    /\ resp.rows[1].userId = resp.args.userId
    /\ \E r \in store : /\ r.userId # resp.args.userId
                        /\ ~r.completed
                        /\ r.progress > 0
                        /\ r.progress < 90
                        /\ resp.args.mediaType \in {NoMediaType, r.mediaType}

====
